---- MODULE Spec2Model ----
(***************************************************************************)
(* The announcements router (backend/routers/announcements.py): five       *)
(* request handlers over one document collection, gated by a lookup in the *)
(* teachers collection.                                                    *)
(*                                                                         *)
(* Strings that the handlers parse are modelled by what the parse makes of *)
(* them.  A date string is a record [k, t]:                                *)
(*   k = "None"   Python None / BSON null (the parameter was not supplied) *)
(*   k = "empty"  the empty string ""                                      *)
(*   k = "bad"    a string datetime.fromisoformat rejects ("not-a-date")   *)
(*   k = "naive"  "2025-01-0<t+1>T00:00:00"   (no UTC offset)              *)
(*   k = "Z"      "2025-01-0<t+1>T00:00:00Z"  (trailing Z)                 *)
(* An announcement id string is a natural: 0 is a string ObjectId()        *)
(* rejects ("not-a-valid-id"), i >= 1 is the 24-hex-digit form of the      *)
(* i-th ObjectId the store hands out.                                      *)
(***************************************************************************)
EXTENDS Integers, Sequences, FiniteSets, TLC

VARIABLES store, nextId, call, resp, pc, job, out

vars == <<store, nextId, call, resp, pc, job, out>>

\* ------------------------------------------------------------------ bounds
\* Instants are 0..MaxT; at most MaxIds documents are ever inserted.
MaxT == 1
MaxIds == 2

Times == 0 .. MaxT

\* ------------------------------------------------------------------- values
None == "None"
Teachers == {"mrodriguez", "mchen"}
Usernames == {None, "", "ghost_teacher"} \cup Teachers
Messages == {"M1", "M2"}

NoDate == [k |-> "None", t |-> 0]
EmptyDate == [k |-> "empty", t |-> 0]
BadDate == [k |-> "bad", t |-> 0]
Iso(k, t) == [k |-> k, t |-> t]
IsoDates == {Iso(k, t) : k \in {"naive", "Z"}, t \in Times}
\* what a caller can pass as a date string
DateStrings == {EmptyDate, BadDate} \cup IsoDates

BadId == 0
IdStrings == 0 .. MaxIds

NullDoc == [_id |-> 0, message |-> None, start_date |-> NoDate, end_date |-> NoDate,
            created_by |-> None, created_at |-> NoDate]

\* ------------------------------------------------------- pure helpers
\* datetime.now().isoformat(): a naive ISO string
NowString(now) == Iso("naive", now)

\* mutant: every id string is taken for an ObjectId
IsValidObjectIdAny(id) == TRUE

\* ObjectId(announcement_id) raises on a malformed string
IsValidObjectId(id) == id >= 1

\* datetime.fromisoformat(s.replace('Z', '+00:00')) does not raise ValueError
Parses(d) == d.k \in {"naive", "Z"}

\* the parsed datetime carries a tzinfo (the Z became +00:00)
Aware(d) == d.k = "Z"

\* Python truthiness of an Optional[str]
Truthy(d) == d.k \notin {"None", "empty"}

\* mutant: start_dt > end_dt, equal dates pass
CompareGeStrict(s, e) ==
    IF (s.k = "Z") # (e.k = "Z") THEN "TypeError"
    ELSE IF s.t > e.t THEN "ge" ELSE "lt"

\* start_dt >= end_dt on two parsed datetimes: ordering a naive against an
\* aware datetime raises TypeError
CompareGe(s, e) ==
    IF Aware(s) # Aware(e) THEN "TypeError"
    ELSE IF s.t >= e.t THEN "ge" ELSE "lt"

\* position of a string in the store's (lexicographic) string order:
\* "" < "2025-01-01T00:00:00" < "2025-01-01T00:00:00Z" < "2025-01-02T00:00:00" < ... < "not-a-date"
LexKey(d) ==
    CASE d.k = "empty" -> 0
      [] d.k = "naive" -> 2 * d.t + 1
      [] d.k = "Z" -> 2 * d.t + 2
      [] OTHER -> 2 * MaxT + 3

\* mutant: $gt in place of $gte
MatchGt(f, v) == f.k # "None" /\ LexKey(f) > LexKey(v)

\* {field: {"$gte": v}} and {field: {"$lte": v}} with v a string: only string
\* fields are compared (a null field matches neither)
MatchGte(f, v) == f.k # "None" /\ LexKey(f) >= LexKey(v)
MatchLte(f, v) == f.k # "None" /\ LexKey(f) <= LexKey(v)

\* the query of get_active_announcements
ActiveQuery(a, now) ==
    /\ MatchGte(a.end_date, NowString(now))
    /\ \/ a.start_date = NoDate
       \/ MatchLte(a.start_date, NowString(now))

\* mutant: the teachers lookup is skipped
AuthorizedAnyName(u) == u # None /\ u # ""

\* `if not teacher_username` ... teachers_collection.find_one({"_id": teacher_username})
Authorized(u) == u # None /\ u # "" /\ u \in Teachers

\* collection.find_one({"_id": ObjectId(id)}): the set of matching documents (0 or 1)
FindOne(coll, id) == {a \in coll : a._id = id}

\* cursor.sort("created_at", -1): every order of S that is descending by
\* created_at (documents with equal keys come in an order the store chooses)
SortedDesc(S) ==
    {s \in [1 .. Cardinality(S) -> S] :
        /\ \A i, j \in 1 .. Cardinality(S) : i # j => s[i] # s[j]
        /\ \A i, j \in 1 .. Cardinality(S) :
              i < j => LexKey(s[i].created_at) >= LexKey(s[j].created_at)}

Response(status, doc, list) == [status |-> status, doc |-> doc, list |-> list]

Call(op, id, message, end_date, start_date, user, now) ==
    [op |-> op, id |-> id, message |-> message, end_date |-> end_date,
     start_date |-> start_date, teacher_username |-> user, now |-> now]

NoCall == Call("none", 0, None, NoDate, NoDate, None, 0)
NoResponse == Response(0, NullDoc, <<>>)

\* no request is being handled: a handler keeps nothing between requests
Waiting == call = NoCall

\* ---------------------------------------------------------------- create
\* the date validation of create_announcement: the status it ends with
CreateDateStatus(start_date, end_date) ==
    IF ~Parses(end_date) THEN 400
    ELSE IF Truthy(start_date)
         THEN IF ~Parses(start_date) THEN 400
              ELSE CASE CompareGe(start_date, end_date) = "TypeError" -> 500
                     [] CompareGe(start_date, end_date) = "ge" -> 400
                     [] OTHER -> 200
         ELSE 200

CreateStatus(r) ==
    IF ~Authorized(r.teacher_username) THEN 401
    ELSE CreateDateStatus(r.start_date, r.end_date)

\* mutant: start_date is not stored
NewAnnouncementNoStart(r, id) ==
    [_id |-> id, message |-> r.message, start_date |-> NoDate,
     end_date |-> r.end_date, created_by |-> r.teacher_username,
     created_at |-> Iso("naive", r.now)]

\* the document create_announcement inserts
NewAnnouncement(r, id) ==
    [_id |-> id, message |-> r.message, start_date |-> r.start_date,
     end_date |-> r.end_date, created_by |-> r.teacher_username,
     created_at |-> NowString(r.now)]

CreateAnnouncement(r) ==
    /\ nextId <= MaxIds
    /\ call' = r
    /\ IF CreateStatus(r) = 200
       THEN /\ store' = store \cup {NewAnnouncement(r, nextId)}
            /\ nextId' = nextId + 1
            /\ resp' = Response(200, NewAnnouncement(r, nextId), <<>>)
       ELSE /\ resp' = Response(CreateStatus(r), NullDoc, <<>>)
            /\ UNCHANGED <<store, nextId>>
    /\ UNCHANGED <<pc, job, out>>

\* ---------------------------------------------------------------- update
\* mutant: start_date = "" is stored as it came
UpdateFieldsKeepEmpty(r) ==
    [keys |-> {k \in {"message", "end_date", "start_date"} :
                  \/ k = "message" /\ r.message # None
                  \/ k = "end_date" /\ r.end_date # NoDate
                  \/ k = "start_date" /\ r.start_date # NoDate},
     message |-> r.message,
     end_date |-> r.end_date,
     start_date |-> r.start_date]

\* update_fields: the keys it holds and their values
UpdateFields(r) ==
    [keys |-> {k \in {"message", "end_date", "start_date"} :
                  \/ k = "message" /\ r.message # None
                  \/ k = "end_date" /\ r.end_date # NoDate
                  \/ k = "start_date" /\ r.start_date # NoDate},
     message |-> r.message,
     end_date |-> r.end_date,
     start_date |-> IF r.start_date = EmptyDate THEN NoDate ELSE r.start_date]

\* building update_fields raises 400 on a supplied date that does not parse
FieldsParse(r) ==
    /\ r.end_date # NoDate => Parses(r.end_date)
    /\ (r.start_date # NoDate /\ r.start_date # EmptyDate) => Parses(r.start_date)

\* update_fields.get(key, announcement.get(key))
FinalStart(u, ann) == IF "start_date" \in u.keys THEN u.start_date ELSE ann.start_date
FinalEnd(u, ann) == IF "end_date" \in u.keys THEN u.end_date ELSE ann.end_date

\* "Validate date logic": the status after the start < end re-validation
DateLogicStatus(final_start, final_end) ==
    IF Truthy(final_start) /\ Truthy(final_end)
    THEN IF ~Parses(final_start) \/ ~Parses(final_end) THEN 200
         ELSE CASE CompareGe(final_start, final_end) = "TypeError" -> 500
                [] CompareGe(final_start, final_end) = "ge" -> 400
                [] OTHER -> 200
    ELSE 200

\* the status update_announcement reaches before it writes, given the
\* documents find_one saw
UpdateStatus(r, found) ==
    IF ~Authorized(r.teacher_username) THEN 401
    ELSE IF ~IsValidObjectId(r.id) THEN 400
    ELSE IF found = {} THEN 404
    ELSE IF ~FieldsParse(r) THEN 400
    ELSE LET ann == CHOOSE a \in found : TRUE
         IN DateLogicStatus(FinalStart(UpdateFields(r), ann), FinalEnd(UpdateFields(r), ann))

\* mutant: the three fields are written whether supplied or not
SetFieldsAll(a, u) ==
    [a EXCEPT !.message = u.message, !.end_date = u.end_date, !.start_date = u.start_date]

\* one document after {"$set": update_fields}
SetFields(a, u) ==
    [a EXCEPT !.message = IF "message" \in u.keys THEN u.message ELSE @,
              !.end_date = IF "end_date" \in u.keys THEN u.end_date ELSE @,
              !.start_date = IF "start_date" \in u.keys THEN u.start_date ELSE @]

\* collection.update_one({"_id": id}, {"$set": update_fields}), skipped when
\* update_fields is empty
UpdateOne(coll, id, u) ==
    IF u.keys = {} THEN coll
    ELSE {IF a._id = id THEN SetFields(a, u) ELSE a : a \in coll}

\* the final find_one and updated["_id"] = ...: None is not subscriptable
RereadResponse(coll, id) ==
    IF FindOne(coll, id) = {} THEN Response(500, NullDoc, <<>>)
    ELSE Response(200, CHOOSE a \in FindOne(coll, id) : TRUE, <<>>)

UpdateAnnouncement(r) ==
    /\ call' = r
    /\ IF UpdateStatus(r, FindOne(store, r.id)) = 200
       THEN /\ store' = UpdateOne(store, r.id, UpdateFields(r))
            /\ resp' = RereadResponse(UpdateOne(store, r.id, UpdateFields(r)), r.id)
       ELSE /\ resp' = Response(UpdateStatus(r, FindOne(store, r.id)), NullDoc, <<>>)
            /\ UNCHANGED store
    /\ UNCHANGED <<nextId, pc, job, out>>

\* ---------------------------------------------------------------- delete
DeleteStatus(r, coll) ==
    IF ~Authorized(r.teacher_username) THEN 401
    ELSE IF ~IsValidObjectId(r.id) THEN 400
    ELSE IF FindOne(coll, r.id) = {} THEN 404
    ELSE 200

DeleteOne(coll, id) == coll \ FindOne(coll, id)

DeleteAnnouncement(r) ==
    /\ call' = r
    /\ resp' = Response(DeleteStatus(r, store), NullDoc, <<>>)
    /\ store' = IF DeleteStatus(r, store) = 200 THEN DeleteOne(store, r.id) ELSE store
    /\ UNCHANGED <<nextId, pc, job, out>>

\* ----------------------------------------------------------------- lists
GetAllAnnouncements(r) ==
    /\ call' = r
    /\ IF ~Authorized(r.teacher_username)
       THEN resp' = Response(401, NullDoc, <<>>)
       ELSE \E s \in SortedDesc(store) : resp' = Response(200, NullDoc, s)
    /\ UNCHANGED <<store, nextId, pc, job, out>>

GetActiveAnnouncements(r) ==
    /\ call' = r
    /\ \E s \in SortedDesc({a \in store : ActiveQuery(a, r.now)}) :
          resp' = Response(200, NullDoc, s)
    /\ UNCHANGED <<store, nextId, pc, job, out>>

\* ------------------------------------------------------------- requests
\* Three sets of requests drive the handlers.
\*  - Spec: who calls.  Both teachers and three requesters that are no teacher
\*    (no username, "", an unknown name), two messages, naive dates; the
\*    non-teachers also send malformed ids and unparseable dates.
\*  - SpecDates: what dates are sent.  One teacher sends every date string:
\*    naive, with Z, unparseable, empty, not supplied.
\*  - SpecFull: every combination of the two.
Intruders == {None, "", "ghost_teacher"}
NaiveDates == {Iso("naive", t) : t \in Times}
ProbeDates == {BadDate, Iso("naive", 0)}
\* "mrodriguez" posts at instant 0, "mchen" at the last instant
Postings == {<<"mrodriguez", 0>>, <<"mchen", MaxT>>}

CreateCalls ==
    {Call("create", 0, m, e, s, p[1], p[2]) :
        m \in Messages, e \in NaiveDates, s \in {NoDate} \cup NaiveDates, p \in Postings}
    \cup
    {Call("create", 0, "M1", e, s, u, 0) :
        e \in ProbeDates, s \in {NoDate} \cup ProbeDates, u \in Intruders}

UpdateCalls ==
    {Call("update", id, m, e, s, "mchen", 0) :
        id \in IdStrings, m \in {None, "M2"}, e \in {NoDate} \cup NaiveDates,
        s \in {NoDate} \cup NaiveDates}
    \cup
    {Call("update", id, None, e, s, u, 0) :
        id \in IdStrings, e \in {NoDate, BadDate}, s \in {NoDate, BadDate}, u \in Intruders}

DeleteCalls ==
    {Call("delete", id, None, NoDate, NoDate, u, 0) : id \in IdStrings, u \in Usernames}

AllCalls == {Call("all", 0, None, NoDate, NoDate, u, 0) : u \in Usernames}

ActiveCalls == {Call("active", 0, None, NoDate, NoDate, None, now) : now \in Times}

DatesCreateCalls ==
    {Call("create", 0, "M1", e, s, "mrodriguez", 0) :
        e \in DateStrings, s \in {NoDate} \cup DateStrings}

DatesUpdateCalls ==
    {Call("update", id, None, e, s, "mrodriguez", 0) :
        id \in IdStrings, e \in {NoDate} \cup DateStrings, s \in {NoDate} \cup DateStrings}

DatesDeleteCalls ==
    {Call("delete", id, None, NoDate, NoDate, "mrodriguez", 0) : id \in IdStrings}

DatesAllCalls == {Call("all", 0, None, NoDate, NoDate, "mrodriguez", 0)}

FullCreateCalls ==
    {Call("create", 0, m, e, s, u, now) :
        m \in Messages, e \in DateStrings, s \in {NoDate} \cup DateStrings,
        u \in Teachers, now \in Times}
    \cup
    {Call("create", 0, "M1", e, s, u, 0) :
        e \in ProbeDates, s \in {NoDate} \cup ProbeDates, u \in Intruders}

FullUpdateCalls ==
    {Call("update", id, m, e, s, u, 0) :
        id \in IdStrings, m \in {None, "M2"}, e \in {NoDate} \cup DateStrings,
        s \in {NoDate} \cup DateStrings, u \in Teachers}
    \cup
    {Call("update", id, m, e, s, u, 0) :
        id \in IdStrings, m \in {None, "M2"}, e \in {NoDate} \cup ProbeDates,
        s \in {NoDate} \cup ProbeDates, u \in Intruders}

\* two requests of update_announcement can be in flight at once
Workers == {1, 2}
Idle == [w \in Workers |-> "idle"]
NoJob == [w \in Workers |-> [r |-> NoCall, validated |-> FALSE]]
NoOut == [w \in Workers |-> NoResponse]

\* after construction: both collections as the application finds them, the
\* announcements collection empty
Init ==
    /\ store = {}
    /\ nextId = 1
    /\ call = NoCall
    /\ resp = NoResponse
    /\ pc = Idle
    /\ job = NoJob
    /\ out = NoOut

\* the handler's return value (or its HTTPException) goes out and the request ends
Respond ==
    /\ call # NoCall
    /\ call' = NoCall
    /\ resp' = NoResponse
    /\ UNCHANGED <<store, nextId, pc, job, out>>

Next ==
    \/ Respond
    \/ Waiting /\ \E r \in CreateCalls : CreateAnnouncement(r)
    \/ Waiting /\ \E r \in UpdateCalls : UpdateAnnouncement(r)
    \/ Waiting /\ \E r \in DeleteCalls : DeleteAnnouncement(r)
    \/ Waiting /\ \E r \in AllCalls : GetAllAnnouncements(r)
    \/ Waiting /\ \E r \in ActiveCalls : GetActiveAnnouncements(r)

Spec == Init /\ [][Next]_vars

NextDates ==
    \/ Respond
    \/ Waiting /\ \E r \in DatesCreateCalls : CreateAnnouncement(r)
    \/ Waiting /\ \E r \in DatesUpdateCalls : UpdateAnnouncement(r)
    \/ Waiting /\ \E r \in DatesDeleteCalls : DeleteAnnouncement(r)
    \/ Waiting /\ \E r \in DatesAllCalls : GetAllAnnouncements(r)
    \/ Waiting /\ \E r \in ActiveCalls : GetActiveAnnouncements(r)

SpecDates == Init /\ [][NextDates]_vars

NextFull ==
    \/ Respond
    \/ Waiting /\ \E r \in FullCreateCalls : CreateAnnouncement(r)
    \/ Waiting /\ \E r \in FullUpdateCalls : UpdateAnnouncement(r)
    \/ Waiting /\ \E r \in DeleteCalls : DeleteAnnouncement(r)
    \/ Waiting /\ \E r \in AllCalls : GetAllAnnouncements(r)
    \/ Waiting /\ \E r \in ActiveCalls : GetActiveAnnouncements(r)

SpecFull == Init /\ [][NextFull]_vars

\* ------------------------------------------- update, store step by store step
\* update_announcement touches the announcements collection three times: the
\* find_one, the update_one and the final find_one.  Everything between two
\* of them is local to the request, so each step below is one store
\* operation with the local code that follows it.

\* lines 134-187: authentication, find_one, update_fields, date validation
UpdateBegin(w, r) ==
    /\ pc[w] = "idle"
    /\ job' = [job EXCEPT ![w] = [r |-> r,
                                  validated |-> UpdateStatus(r, FindOne(store, r.id)) = 200]]
    /\ IF UpdateStatus(r, FindOne(store, r.id)) = 200
       THEN /\ pc' = [pc EXCEPT ![w] = IF UpdateFields(r).keys = {} THEN "reread" ELSE "write"]
            /\ UNCHANGED out
       ELSE /\ pc' = [pc EXCEPT ![w] = "done"]
            /\ out' = [out EXCEPT ![w] =
                          Response(UpdateStatus(r, FindOne(store, r.id)), NullDoc, <<>>)]
    /\ UNCHANGED <<store, nextId, call, resp>>

\* lines 189-193: update_one
UpdateWrite(w) ==
    /\ pc[w] = "write"
    /\ store' = UpdateOne(store, job[w].r.id, UpdateFields(job[w].r))
    /\ pc' = [pc EXCEPT ![w] = "reread"]
    /\ UNCHANGED <<nextId, call, resp, job, out>>

\* lines 195-199: the final find_one and the return
UpdateReread(w) ==
    /\ pc[w] = "reread"
    /\ out' = [out EXCEPT ![w] = RereadResponse(store, job[w].r.id)]
    /\ pc' = [pc EXCEPT ![w] = "done"]
    /\ UNCHANGED <<store, nextId, call, resp, job>>

\* the response goes out and the request ends
UpdateReturn(w) ==
    /\ pc[w] = "done"
    /\ pc' = [pc EXCEPT ![w] = "idle"]
    /\ job' = [job EXCEPT ![w] = NoJob[w]]
    /\ out' = [out EXCEPT ![w] = NoResponse]
    /\ UNCHANGED <<store, nextId, call, resp>>

\* The requests of the interleaved runs: one teacher, naive dates.  create and
\* delete touch the announcements collection once, so they stay one step.
ConcCreateCalls ==
    {Call("create", 0, "M1", e, s, "mrodriguez", 0) :
        e \in NaiveDates, s \in {NoDate} \cup NaiveDates}

ConcUpdateCalls ==
    {Call("update", 1, None, e, s, "mrodriguez", 0) :
        e \in {NoDate} \cup NaiveDates, s \in {NoDate, EmptyDate} \cup NaiveDates}

ConcDeleteCalls == {Call("delete", 1, None, NoDate, NoDate, "mrodriguez", 0)}

NextConc ==
    \/ Respond
    \/ Waiting /\ \E r \in ConcCreateCalls : CreateAnnouncement(r)
    \/ Waiting /\ \E r \in ConcDeleteCalls : DeleteAnnouncement(r)
    \/ Waiting /\ \E w \in Workers : \E r \in ConcUpdateCalls : UpdateBegin(w, r)
    \/ Waiting /\ \E w \in Workers : UpdateWrite(w)
    \/ Waiting /\ \E w \in Workers : UpdateReread(w)
    \/ Waiting /\ \E w \in Workers : UpdateReturn(w)

SpecConc == Init /\ [][NextConc]_vars

\* =================================================================== claims
Range(q) == {q[i] : i \in 1 .. Len(q)}
PrivilegedOps == {"all", "create", "update", "delete"}

\* the instant an ISO string names (a naive string read as UTC)
Instant(d) == d.t
\* a date field holds a date: neither null nor ""
Present(d) == d.k \notin {"None", "empty"}
StrictlyEarlier(s, e) == Parses(s) /\ Parses(e) /\ Instant(s) < Instant(e)
\* no teacher may act under this username: omitted, empty or unknown
NotATeacher(u) == u = None \/ u = "" \/ u \notin Teachers
\* the stored document with this id, as a set
Stored(id) == {a \in store : a._id = id}

\* C1: in every state reached by create, update and delete requests run one
\* at a time from the empty collection, every stored announcement with both
\* dates present has start_date strictly earlier than end_date.
C1_StartBeforeEnd ==
    \A a \in store :
        (Present(a.start_date) /\ Present(a.end_date))
            => StrictlyEarlier(a.start_date, a.end_date)

\* an update that supplied only start_date succeeded on a record that keeps
\* its stored end_date
C1_Witness ==
    /\ call.op = "update" /\ resp.status = 200
    /\ call.end_date = NoDate /\ Present(call.start_date)
    /\ resp.doc \in store
    /\ Present(resp.doc.start_date) /\ Present(resp.doc.end_date)

\* C2: list-all, create, update and delete answer 401 and leave the
\* collection alone whenever the username is omitted, empty or unknown,
\* whatever the other arguments; with a teacher's username they never answer
\* 401; list-active needs no username.
C2_Unauthorized ==
    [][/\ (call'.op \in PrivilegedOps /\ NotATeacher(call'.teacher_username))
            => (resp'.status = 401 /\ store' = store /\ nextId' = nextId)
       /\ (call'.op \in PrivilegedOps /\ ~NotATeacher(call'.teacher_username))
            => resp'.status # 401
       /\ call'.op = "active" => resp'.status = 200]_vars

\* an unknown requester sent update with a malformed id and an unparseable
\* date to a non-empty collection and got 401
C2_Witness ==
    /\ call.op = "update" /\ call.teacher_username = "ghost_teacher"
    /\ call.id = BadId /\ call.end_date = BadDate
    /\ resp.status = 401 /\ store # {}

C4_BadOrderIs400 ==
    [][/\ (call'.op = "create"
            /\ ~NotATeacher(call'.teacher_username)
            /\ Present(call'.start_date)
            /\ ~StrictlyEarlier(call'.start_date, call'.end_date))
           => (resp'.status = 400 /\ store' = store)
       /\ (call'.op = "update" /\ ~NotATeacher(call'.teacher_username))
           => \A a \in Stored(call'.id) :
                 LET fs == IF call'.start_date # NoDate THEN call'.start_date
                                                        ELSE a.start_date
                     fe == IF call'.end_date # NoDate THEN call'.end_date
                                                      ELSE a.end_date
                 IN  (Present(fs) /\ ~StrictlyEarlier(fs, fe))
                        => (resp'.status = 400 /\ store' = store)]_vars

\* C5: a successful update changes, in the targeted record, only the
\* supplied fields among message, end_date and start_date; _id, created_by
\* and created_at never change; every other record is unchanged; an update
\* that supplies nothing writes nothing and returns the record as stored.
C5_UpdateFrame ==
    [][(call'.op = "update" /\ resp'.status = 200) =>
        \E old \in Stored(call'.id) :
            /\ resp'.doc \in store'
            /\ store' \ {resp'.doc} = store \ {old}
            /\ resp'.doc._id = old._id
            /\ resp'.doc.created_by = old.created_by
            /\ resp'.doc.created_at = old.created_at
            /\ call'.message = None => resp'.doc.message = old.message
            /\ call'.end_date = NoDate => resp'.doc.end_date = old.end_date
            /\ call'.start_date = NoDate => resp'.doc.start_date = old.start_date
            /\ (call'.message = None /\ call'.end_date = NoDate /\ call'.start_date = NoDate)
                  => (store' = store /\ resp'.doc = old)]_vars

\* an update that supplied only a message succeeded on one of two stored
\* records, whose start_date is set
C5_Witness ==
    /\ call.op = "update" /\ resp.status = 200
    /\ call.message = "M2" /\ call.end_date = NoDate /\ call.start_date = NoDate
    /\ Cardinality(store) = 2
    /\ Present(resp.doc.start_date)

\* C6 as stated: every authorized update of an existing record that supplies
\* start_date = "" succeeds and leaves the record with start_date null.
C6_ClearAlwaysSucceeds ==
    [][(/\ call'.op = "update"
        /\ ~NotATeacher(call'.teacher_username)
        /\ call'.start_date = EmptyDate
        /\ Stored(call'.id) # {})
       => (/\ resp'.status = 200
           /\ resp'.doc.start_date = NoDate
           /\ resp'.doc \in store')]_vars

\* C6 as amended: an authorized update of an existing record that supplies
\* start_date = "" and no end_date, or an end_date that parses, succeeds
\* whatever the stored dates are and leaves start_date null, after which
\* list-active returns the record at every instant up to its end_date; an
\* update that does not supply start_date leaves the stored start_date.
C6_ClearStartDate ==
    [][/\ (call'.op = "update"
            /\ ~NotATeacher(call'.teacher_username)
            /\ call'.start_date = EmptyDate
            /\ (call'.end_date = NoDate \/ Parses(call'.end_date))
            /\ Stored(call'.id) # {})
           => (/\ resp'.status = 200
               /\ resp'.doc.start_date = NoDate
               /\ resp'.doc \in store'
               /\ \A now \in Times :
                     ActiveQuery(resp'.doc, now)
                        <=> LexKey(resp'.doc.end_date) >= LexKey(NowString(now)))
       /\ (call'.op = "update" /\ resp'.status = 200 /\ call'.start_date = NoDate)
           => \E old \in Stored(call'.id) : resp'.doc.start_date = old.start_date]_vars

\* start_date = "" cleared a start_date that was set, on a record whose
\* start lay in the future of instant 0
C6_Witness ==
    /\ call.op = "update" /\ resp.status = 200
    /\ call.start_date = EmptyDate
    /\ resp.doc.start_date = NoDate
    /\ resp.doc \in store
    /\ ActiveQuery(resp.doc, 0)

\* C7: for a teacher, update and delete with a malformed id answer 400,
\* with a well-formed id that matches no stored record (also one deleted
\* earlier) answer 404, whatever the dates supplied, and the collection is
\* unchanged either way.
C7_IdErrors ==
    [][(call'.op \in {"update", "delete"} /\ ~NotATeacher(call'.teacher_username)) =>
        /\ call'.id = BadId => (resp'.status = 400 /\ store' = store)
        /\ (call'.id # BadId /\ Stored(call'.id) = {})
              => (resp'.status = 404 /\ store' = store)]_vars

\* update with an unparseable date on the id of a record that was created
\* and later deleted answered 404
C7_Witness ==
    /\ call.op = "update" /\ resp.status = 404
    /\ call.end_date = BadDate
    /\ call.id >= 1 /\ call.id < nextId

\* C8: a successful create stores and returns a record with the message,
\* end_date and start_date as supplied (null when not supplied), created_by
\* the requester and an id no record ever had; list-all by a teacher returns
\* every stored record; a stored record changes or goes only by an update or
\* delete of its id.
C8_CreateRoundTrip ==
    [][/\ (call'.op = "create" /\ resp'.status = 200) =>
            /\ resp'.doc.message = call'.message
            /\ resp'.doc.end_date = call'.end_date
            /\ resp'.doc.start_date = call'.start_date
            /\ resp'.doc.created_by = call'.teacher_username
            /\ resp'.doc._id >= nextId /\ nextId' > resp'.doc._id
            /\ \A a \in store : a._id < resp'.doc._id
            /\ store' = store \cup {resp'.doc}
       /\ nextId' >= nextId
       /\ \A a \in store' : a._id < nextId'
       /\ (call'.op = "all" /\ resp'.status = 200) =>
            (Range(resp'.list) = store /\ store' = store)
       /\ \A a \in store :
            a \notin store' => (call'.op \in {"update", "delete"} /\ call'.id = a._id)]_vars

\* the second create, by the other teacher than the first, with a start_date
\* supplied, succeeded
C8_Witness ==
    /\ call.op = "create" /\ resp.status = 200
    /\ Present(call.start_date)
    /\ Cardinality(store) = 2
    /\ \E a \in store : a.created_by # call.teacher_username

\* C9: every update that passed authorization, id lookup and date validation
\* answers 200 with the record carrying every field it supplied, also with
\* other updates and deletes of the same id between its store steps.
C9_UpdateReturnsItsWrite ==
    \A w \in Workers :
        (pc[w] = "done" /\ job[w].validated) =>
            /\ out[w].status = 200
            /\ job[w].r.end_date # NoDate => out[w].doc.end_date = job[w].r.end_date
            /\ job[w].r.start_date \notin {NoDate, EmptyDate}
                  => out[w].doc.start_date = job[w].r.start_date
            /\ job[w].r.start_date = EmptyDate => out[w].doc.start_date = NoDate

\* C10: start_date < end_date whenever both are present holds of every
\* stored record also when updates of the same record interleave their
\* read, validation and write.
C10_StartBeforeEndInterleaved ==
    \A a \in store :
        (Present(a.start_date) /\ Present(a.end_date))
            => StrictlyEarlier(a.start_date, a.end_date)

====
